---- MODULE Spec2Model ----
(***************************************************************************)
(* A model of the rust_snmp codec: the TLV encoders and decoders           *)
(* (traits.rs, types.rs), the GetRequest builder and the GetResponse       *)
(* parser (snmpv1.rs).                                                     *)
(*                                                                         *)
(* Conventions.  A byte is a number in 0..255 and a buffer is a sequence   *)
(* of bytes; Rust's 0-based index i is the TLA+ index i+1.  An i64 is kept *)
(* as its 8 big-endian two's-complement bytes, and a u32 as the pair       *)
(* <<high 16 bits, low 16 bits>>, so that no value leaves the range of     *)
(* the model checker's integers.                                           *)
(***************************************************************************)
EXTENDS Integers, Sequences, FiniteSets, TLC

VARIABLES pc, op, input, gen, output, log

vars == <<pc, op, input, gen, output, log>>

(***************************************************************************)
(* Bounds of the enumerated inputs.                                        *)
(***************************************************************************)
MaxTextLen == 2
MaxMibLen == 2
MaxTrunc == 3

Byte == 0..255

Repeat(b, n) == [i \in 1..n |-> b]

\* Result: Ok(v), or Err(e) for the SnmpError e (code: the i64 it carries)
Ok(v) == [ok |-> TRUE, err |-> "", code |-> <<>>, val |-> v]
Err(e) == [ok |-> FALSE, err |-> e, code |-> <<>>, val |-> <<>>]

\* types.rs, enum SnmpType (and the SnmpObjectID variant snmpv1.rs matches on)
SnmpInteger(i) == [type |-> "SnmpInteger", bytes |-> i]
SnmpString(s) == [type |-> "SnmpString", bytes |-> s]
SnmpNull == [type |-> "SnmpNull", bytes |-> <<>>]
SnmpObjectID(o) == [type |-> "SnmpObjectID", bytes |-> o]

(***************************************************************************)
(* Integers of a fixed width.                                              *)
(***************************************************************************)
\* the sign extension of 1..8 big-endian bytes to an i64
SignExtend(data) ==
  Repeat(IF data[1] >= 128 THEN 255 ELSE 0, 8 - Len(data)) \o data

Reverse(s) == [i \in 1..Len(s) |-> s[Len(s) + 1 - i]]

\* BigEndian::read_int(data, data.len()) / LittleEndian::read_int
BigEndian_read_int(data) == SignExtend(data)
LittleEndian_read_int(data) == SignExtend(Reverse(data))

I64Zero == Repeat(0, 8)

\* the i64 of a number that fits 32 bits
I64(v) ==
  SignExtend(<<(v \div 16777216) % 256, (v \div 65536) % 256,
               (v \div 256) % 256, v % 256>>)

\* the i64 of a u32 <<hi, lo>>
I64OfU32(w) ==
  <<0, 0, 0, 0, w[1] \div 256, w[1] % 256, w[2] \div 256, w[2] % 256>>

(***************************************************************************)
(* String::from_utf8: the well-formed UTF-8 byte sequences.                *)
(***************************************************************************)
IsCont(s, i) == i >= 1 /\ i <= Len(s) /\ s[i] >= 128 /\ s[i] <= 191

\* the number of continuation bytes a leading byte announces (-1: no lead)
Utf8Need(b) ==
  IF b <= 127 THEN 0
  ELSE IF b >= 194 /\ b <= 223 THEN 1
  ELSE IF b >= 224 /\ b <= 239 THEN 2
  ELSE IF b >= 240 /\ b <= 244 THEN 3
  ELSE -1

\* s is well formed when every byte that is no continuation byte is a lead
\* followed by exactly the continuation bytes it announces, the second byte
\* in the range that excludes overlong forms, surrogates and code points
\* above U+10FFFF, and no continuation byte comes first
from_utf8(s) ==
  /\ ~IsCont(s, 1)
  /\ \A i \in 1..Len(s) :
       IsCont(s, i) \/
         /\ Utf8Need(s[i]) >= 0
         /\ \A k \in 1..Utf8Need(s[i]) : IsCont(s, i + k)
         /\ ~IsCont(s, i + Utf8Need(s[i]) + 1)
         /\ (s[i] = 224 => s[i + 1] >= 160)
         /\ (s[i] = 237 => s[i + 1] <= 159)
         /\ (s[i] = 240 => s[i + 1] >= 144)
         /\ (s[i] = 244 => s[i + 1] <= 143)

(***************************************************************************)
(* traits.rs: EncodeSnmp                                                   *)
(***************************************************************************)
encode_snmp_u8(v) == <<2, 1, v>>

encode_snmp_i16(v) == <<2, 2, (v \div 256) % 256, v % 256>>

encode_snmp_i32(v) ==
  <<2, 4, (v \div 16777216) % 256, (v \div 65536) % 256,
          (v \div 256) % 256, v % 256>>

encode_snmp_u32(w) ==
  <<2, 4, w[1] \div 256, w[1] % 256, w[2] \div 256, w[2] % 256>>

\* `self.len() as u8` keeps the low 8 bits of the length
encode_snmp_bytes(s) == <<4, Len(s) % 256>> \o s

(***************************************************************************)
(* traits.rs: DecodeSnmp                                                   *)
(***************************************************************************)
decode_snmp_i64(data) ==
  IF Len(data) > 8 \/ Len(data) < 1 THEN Err("ParsingError")
  ELSE Ok(BigEndian_read_int(data))

decode_snmp_String(data) ==
  IF from_utf8(data) THEN Ok(data) ELSE Err("ParsingError")

(***************************************************************************)
(* types.rs: extract_value on a slice.  `indexed` is the set of 0-based    *)
(* indices the call uses in an index or slice expression.                  *)
(***************************************************************************)
extract_integer(data) ==
  IF Len(data) > 8 \/ Len(data) < 1 THEN Err("ParsingError")
  ELSE Ok(SnmpInteger(LittleEndian_read_int(data)))

extract_string(data) ==
  IF from_utf8(data) THEN Ok(SnmpString(data)) ELSE Err("ParsingError")

\* data[i], for the 0-based i; an index out of range panics
Index(data, i) == IF i < Len(data) THEN data[i + 1] ELSE 0

\* a faulty variant: the tags 0x06 and 0x30 are not told from unknown tags
extract_value_match_unknown(data, datatype) ==
  [res |-> CASE datatype = 2 -> extract_integer(SubSeq(data, 3, Len(data)))
             [] datatype = 4 -> extract_string(SubSeq(data, 3, Len(data)))
             [] datatype = 5 -> Ok(SnmpNull)
             [] OTHER -> Err("InvalidType"),
   indexed |-> {0, 1} \cup
               (IF datatype \in {2, 4} THEN 2..(Len(data) - 1) ELSE {})]

\* the match on the datatype, and the slice &data[2..] two of its arms take
extract_value_match(data, datatype) ==
  [res |-> CASE datatype = 2 -> extract_integer(SubSeq(data, 3, Len(data)))
             [] datatype = 4 -> extract_string(SubSeq(data, 3, Len(data)))
             [] datatype = 5 -> Ok(SnmpNull)
             [] datatype = 6 -> Err("NotYetImplementedError")
             [] datatype = 48 -> Err("NotYetImplementedError")
             [] OTHER -> Err("InvalidType"),
   indexed |-> {0, 1} \cup
               (IF datatype \in {2, 4} THEN 2..(Len(data) - 1) ELSE {})]

\* a faulty variant: the length check admits a buffer of one byte
extract_value_off_by_one(data) ==
  IF Len(data) < 1
  THEN [res |-> Err("PacketTooShort"), indexed |-> {}]
  ELSE LET length == Index(data, 1)
           datatype == Index(data, 0)
       IN IF Len(data) - 2 < length
          THEN [res |-> Err("PacketTooShort"), indexed |-> {0, 1}]
          ELSE extract_value_match(data, datatype)

extract_value(data) ==
  IF Len(data) < 2
  THEN [res |-> Err("PacketTooShort"), indexed |-> {}]
  ELSE LET length == Index(data, 1)
           datatype == Index(data, 0)
       IN IF Len(data) - 2 < length
          THEN [res |-> Err("PacketTooShort"), indexed |-> {0, 1}]
          ELSE extract_value_match(data, datatype)

(***************************************************************************)
(* The cursor-based TLV decoder that snmpv1.rs calls as                    *)
(* extract_value(&mut iterator).  pos is the index of the next unread byte *)
(* and `next` the cursor after the header and content bytes consumed.      *)
(***************************************************************************)
Decoded(r, v, n) ==
  [ok |-> r.ok, err |-> r.err, code |-> r.code, val |-> v, next |-> n]

Decode(buf, pos) ==
  IF Len(buf) - (pos - 1) < 2
  THEN Decoded(Err("PacketTooShort"), SnmpNull, pos)
  ELSE LET tag == buf[pos]
           length == buf[pos + 1]
           content == SubSeq(buf, pos + 2, pos + 1 + length)
           next == pos + 2 + length
       IN IF Len(buf) - (pos + 1) < length
          THEN Decoded(Err("PacketTooShort"), SnmpNull, pos)
          ELSE CASE tag = 2 ->
                      LET r == decode_snmp_i64(content)
                      IN Decoded(r, SnmpInteger(r.val), next)
                 [] tag = 4 ->
                      LET r == decode_snmp_String(content)
                      IN Decoded(r, SnmpString(r.val), next)
                 [] tag = 5 -> Decoded(Ok(<<>>), SnmpNull, next)
                 [] tag = 6 -> Decoded(Ok(<<>>), SnmpObjectID(content), next)
                 [] OTHER -> Decoded(Err("InvalidType"), SnmpNull, pos)

(***************************************************************************)
(* snmpv1.rs: Message::from_packet.  The parse state is the cursor (the    *)
(* iterator over packet[2..]), the community read so far and, once a check *)
(* has returned early, the error it returned; a stage passes a failed      *)
(* state on unchanged.                                                     *)
(***************************************************************************)
Abort(st, e, c) == [st EXCEPT !.failed = TRUE, !.err = e, !.code = c]

\* iterator.next().ok_or(ParsingError)? != tag
ExpectByte(packet, st, tag) ==
  IF st.failed THEN st
  ELSE IF st.pos > Len(packet) THEN Abort(st, "ParsingError", <<>>)
  ELSE IF packet[st.pos] # tag THEN Abort(st, "ParsingError", <<>>)
  ELSE [st EXCEPT !.pos = st.pos + 1]

\* iterator.next().ok_or(ParsingError)?
SkipByte(packet, st) ==
  IF st.failed THEN st
  ELSE IF st.pos > Len(packet) THEN Abort(st, "ParsingError", <<>>)
  ELSE [st EXCEPT !.pos = st.pos + 1]

\* a faulty variant: the tag is checked before the length
from_packet_envelope_tag_first(packet) ==
  LET st == [pos |-> 3, failed |-> FALSE, err |-> "", code |-> <<>>,
             community |-> <<>>, data |-> SnmpNull]
  IN IF Len(packet) >= 1 /\ packet[1] # 48
     THEN Abort(st, "ParsingError", <<>>)
     ELSE IF Len(packet) < 2 \/ Len(packet) - 2 # packet[2]
     THEN Abort(st, "PacketTooShort", <<>>)
     ELSE st

from_packet_envelope(packet) ==
  LET st == [pos |-> 3, failed |-> FALSE, err |-> "", code |-> <<>>,
             community |-> <<>>, data |-> SnmpNull]
  IN IF Len(packet) < 2 \/ Len(packet) - 2 # packet[2]
     THEN Abort(st, "PacketTooShort", <<>>)
     ELSE IF packet[1] # 48 THEN Abort(st, "ParsingError", <<>>)
     ELSE st

\* a faulty variant: the version is read and not compared with 0
from_packet_version_any(packet, st) ==
  IF st.failed THEN st
  ELSE LET r == Decode(packet, st.pos)
       IN IF ~r.ok THEN Abort(st, r.err, r.code)
          ELSE IF r.val.type = "SnmpInteger"
            THEN [st EXCEPT !.pos = r.next]
          ELSE Abort(st, "ParsingError", <<>>)

from_packet_version(packet, st) ==
  IF st.failed THEN st
  ELSE LET r == Decode(packet, st.pos)
       IN IF ~r.ok THEN Abort(st, r.err, r.code)
          ELSE IF r.val.type = "SnmpInteger"
            THEN IF r.val.bytes # I64Zero
                 THEN Abort(st, "ParsingError", <<>>)
                 ELSE [st EXCEPT !.pos = r.next]
          ELSE Abort(st, "ParsingError", <<>>)

from_packet_community(packet, st) ==
  IF st.failed THEN st
  ELSE LET r == Decode(packet, st.pos)
       IN IF ~r.ok THEN Abort(st, r.err, r.code)
          ELSE IF r.val.type = "SnmpString"
            THEN [st EXCEPT !.pos = r.next, !.community = r.val.bytes]
          ELSE Abort(st, "ParsingError", <<>>)

\* a faulty variant: the PDU tag is read and not compared with 0xA2
from_packet_pdu_any_tag(packet, st) == SkipByte(packet, SkipByte(packet, st))

from_packet_pdu(packet, st) == SkipByte(packet, ExpectByte(packet, st, 162))

from_packet_request_id(packet, st) ==
  IF st.failed THEN st
  ELSE LET r == Decode(packet, st.pos)
       IN IF ~r.ok THEN Abort(st, r.err, r.code)
          ELSE IF r.val.type = "SnmpInteger"
            THEN [st EXCEPT !.pos = r.next]
          ELSE Abort(st, "ParsingError", <<>>)

\* the error type and the error index are checked by the same code
from_packet_error(packet, st) ==
  IF st.failed THEN st
  ELSE LET r == Decode(packet, st.pos)
       IN IF ~r.ok THEN Abort(st, r.err, r.code)
          ELSE IF r.val.type = "SnmpInteger"
            THEN IF r.val.bytes # I64Zero
                 THEN Abort(st, "ResponseError", r.val.bytes)
                 ELSE [st EXCEPT !.pos = r.next]
          ELSE Abort(st, "ParsingError", <<>>)

\* a faulty variant: the error type is read and not compared with 0
from_packet_error_status_ignored(packet, st) ==
  from_packet_request_id(packet, st)

from_packet_error_status(packet, st) == from_packet_error(packet, st)

from_packet_error_index(packet, st) == from_packet_error(packet, st)

\* a faulty variant: the length of the inner sequence is not consumed
from_packet_bindings_short(packet, st) ==
  ExpectByte(packet, SkipByte(packet, ExpectByte(packet, st, 48)), 48)

from_packet_bindings(packet, st) ==
  SkipByte(packet, ExpectByte(packet,
    SkipByte(packet, ExpectByte(packet, st, 48)), 48))

from_packet_oid(packet, st) ==
  IF st.failed THEN st
  ELSE LET r == Decode(packet, st.pos)
       IN IF ~r.ok THEN Abort(st, r.err, r.code)
          ELSE IF r.val.type = "SnmpObjectID"
            THEN [st EXCEPT !.pos = r.next]
          ELSE Abort(st, "ParsingError", <<>>)

from_packet_data(packet, st) ==
  IF st.failed THEN st
  ELSE LET r == Decode(packet, st.pos)
       IN IF ~r.ok THEN Abort(st, r.err, r.code)
          ELSE [st EXCEPT !.pos = r.next, !.data = r.val]

\* struct Message
Message(packet, community, data) ==
  [packet |-> packet, community |-> community, data |-> data]

NoMessage == Message(<<>>, <<>>, SnmpNull)

from_packet(packet) ==
  LET s1 == from_packet_envelope(packet)
      s2 == from_packet_version(packet, s1)
      s3 == from_packet_community(packet, s2)
      s4 == from_packet_pdu(packet, s3)
      s5 == from_packet_request_id(packet, s4)
      s6 == from_packet_error_status(packet, s5)
      s7 == from_packet_error_index(packet, s6)
      s8 == from_packet_bindings(packet, s7)
      s9 == from_packet_oid(packet, s8)
      s10 == from_packet_data(packet, s9)
  IN IF s10.failed
     THEN [ok |-> FALSE, err |-> s10.err, code |-> s10.code, val |-> NoMessage]
     ELSE [ok |-> TRUE, err |-> "", code |-> <<>>,
           val |-> Message(packet, s10.community, s10.data)]

(***************************************************************************)
(* i64::to_string: the decimal digits, as ASCII bytes.                     *)
(***************************************************************************)
\* the quotient (8 bytes) and the remainder of an unsigned 8-byte number by 10
RECURSIVE DivMod10(_, _, _, _)
DivMod10(n, i, rem, q) ==
  IF i > Len(n) THEN [q |-> q, r |-> rem]
  ELSE LET cur == rem * 256 + n[i]
       IN DivMod10(n, i + 1, cur % 10, Append(q, cur \div 10))

RECURSIVE Digits(_)
Digits(n) ==
  LET d == DivMod10(n, 1, 0, <<>>)
  IN IF d.q = Repeat(0, Len(n)) THEN <<48 + d.r>>
     ELSE Append(Digits(d.q), 48 + d.r)

\* the two's-complement negation of 8 bytes: invert, then add one
RECURSIVE AddOne(_, _)
AddOne(n, i) ==
  IF i = 0 THEN n
  ELSE IF n[i] = 255 THEN AddOne([n EXCEPT ![i] = 0], i - 1)
  ELSE [n EXCEPT ![i] = n[i] + 1]

Negate(n) == AddOne([i \in 1..Len(n) |-> 255 - n[i]], Len(n))

i64_to_string(i) ==
  IF i[1] >= 128 THEN <<45>> \o Digits(Negate(i)) ELSE Digits(i)

\* snmpv1.rs: Message::to_string and Message::to_int
to_string(msg) ==
  CASE msg.data.type = "SnmpInteger" -> Ok(i64_to_string(msg.data.bytes))
    [] msg.data.type = "SnmpString" -> Ok(msg.data.bytes)
    [] OTHER -> Err("InvalidType")

to_int(msg) ==
  CASE msg.data.type = "SnmpInteger" -> Ok(msg.data.bytes)
    [] OTHER -> Err("InvalidType")

(***************************************************************************)
(* snmpv1.rs: Request::createpacket.  A request is its community (bytes),  *)
(* its request_id (a u32) and its mibvals (u16 values).  overflow_checks   *)
(* tells whether the build panics on integer overflow (a debug build) or   *)
(* wraps (a release build).                                                *)
(***************************************************************************)
\* the bytes pushed for one of self.mibvals.iter().skip(2)
mib_push(mibval) ==
  IF mibval > 127
  THEN <<(128 + (mibval \div 128)) % 256,
         (mibval - ((mibval \div 128) * 128)) % 256>>
  ELSE <<mibval % 256>>

RECURSIVE mib_from(_, _)
mib_from(mibvals, i) ==
  IF i > Len(mibvals) THEN <<>>
  ELSE mib_push(mibvals[i]) \o mib_from(mibvals, i + 1)

createpacket_mib(mibvals) == mib_from(mibvals, 3)

createpacket(req, overflow_checks) ==
  LET mib == createpacket_mib(req.mibvals)
      snmplen == 29 + Len(req.community) + Len(mib) + 2 - 1
      \* (mib.len() - 1 + 2) as u8: the subtraction overflows on an empty mib
      oidlen == IF Len(mib) = 0 THEN 1 ELSE (Len(mib) - 1 + 2) % 256
      buf == <<48, (snmplen - 2) % 256>>
             \o encode_snmp_u8(0)
             \o encode_snmp_bytes(req.community)
             \o <<160, (19 + Len(mib) + 2) % 256>>
             \o encode_snmp_u32(req.request_id)
             \o encode_snmp_u8(0)
             \o encode_snmp_u8(0)
             \o <<48, (5 + Len(mib) + 2) % 256>>
             \o <<48, (3 + Len(mib) + 2) % 256>>
             \o <<6, oidlen>>
             \o <<43>>
             \o mib
             \o <<5, 0>>
  IN IF Len(mib) = 0 /\ overflow_checks THEN Err("panic") ELSE Ok(buf)

(***************************************************************************)
(* lib.rs (mod snmpv1) and main.rs: the parsers that read a response at    *)
(* fixed offsets.  `indexed` is the set of 0-based indices used in an      *)
(* index expression; Rust checks each against the length and panics on one *)
(* that is out of range.  A 32-bit value is kept as its 4 big-endian       *)
(* bytes.                                                                  *)
(***************************************************************************)
\* the values of `for i in a..b`: none unless a < b
Range(a, b) == IF a < b THEN [k \in 1..(b - a) |-> a + k - 1] ELSE <<>>

\* (value * 128) + byte in 32 bits, wrapping
ShiftIn(value, byte) ==
  LET t4 == value[4] * 128 + byte
      t3 == value[3] * 128 + t4 \div 256
      t2 == value[2] * 128 + t3 \div 256
      t1 == value[1] * 128 + t2 \div 256
  IN <<t1 % 256, t2 % 256, t3 % 256, t4 % 256>>

\* the loop `for i in datalength..0 { value = value * 128 + packet[..] }`
RECURSIVE IntegerLoop(_, _, _, _, _)
IntegerLoop(packet, datastart, datalength, is, value) ==
  IF is = <<>> THEN value
  ELSE IntegerLoop(packet, datastart, datalength, Tail(is),
                   ShiftIn(value, packet[datastart + datalength - Head(is) + 1]))

\* struct Message of lib.rs
LibMessage(packet, datatype, datalength, datastart) ==
  [packet |-> packet, datatype |-> datatype, datalength |-> datalength,
   datastart |-> datastart]

LibResult(r, ix) == [res |-> r, indexed |-> ix]

lib_from_packet(packet) ==
  IF Len(packet) < 26 THEN LibResult(Err("PacketTooShort"), {})
  ELSE LET commlength == Index(packet, 6) IN
  IF Len(packet) < 25 + commlength
  THEN LibResult(Err("PacketTooShort"), {6})
  ELSE LET miblength == Index(packet, 23 + commlength) IN
  IF Len(packet) < 25 + commlength + miblength
  THEN LibResult(Err("PacketTooShort"), {6, 23 + commlength})
  ELSE LET ix == {6, 23 + commlength, 24 + commlength + miblength,
                  25 + commlength + miblength}
           datatype == Index(packet, 24 + commlength + miblength)
           datalength == Index(packet, 25 + commlength + miblength)
           datastart == 26 + commlength + miblength
       IN
  IF \E i \in ix : i >= Len(packet) THEN LibResult(Err("panic"), ix)
  ELSE IF Len(packet) < 26 + commlength + miblength + datalength
  THEN LibResult(Err("PacketTooShort"), ix)
  ELSE IF datatype \notin {2, 4, 5, 6, 48}
  THEN LibResult(Err("InvalidType"), ix)
  ELSE LibResult(
         Ok(LibMessage(packet,
                       CASE datatype = 2 -> "SnmpInteger"
                         [] datatype = 4 -> "SnmpString"
                         [] datatype = 5 -> "SnmpNull"
                         [] datatype = 6 -> "SnmpObjectID"
                         [] OTHER -> "SnmpSequence",
                       datalength, datastart)),
         ix)

\* lib.rs: Message::as_int
as_int(msg) ==
  IF msg.datatype = "SnmpInteger"
  THEN Ok(IntegerLoop(msg.packet, msg.datastart, msg.datalength,
                      Range(msg.datalength, 0), <<0, 0, 0, 0>>))
  ELSE Err("InvalidType")

\* main.rs: parse; the String of an Ok and the &str of an Err are bytes
\* and text
main_parse(packet) ==
  IF Len(packet) < 6
  THEN LibResult(Err("Packet length is too short."), {})
  ELSE IF 6 >= Len(packet) THEN LibResult(Err("panic"), {6})
  ELSE LET commlength == Index(packet, 6) IN
  IF Len(packet) < 25 + commlength
  THEN LibResult(Err("Packet length is too short."), {6})
  ELSE LET miblength == Index(packet, 23 + commlength) IN
  IF Len(packet) < 25 + commlength + miblength
  THEN LibResult(Err("Packet length is too short."), {6, 23 + commlength})
  ELSE LET ix == {6, 23 + commlength, 24 + commlength + miblength,
                  25 + commlength + miblength}
           datatype == Index(packet, 24 + commlength + miblength)
           datalength == Index(packet, 25 + commlength + miblength)
           datastart == 26 + commlength + miblength
           data == SubSeq(packet, datastart + 1, datastart + datalength)
       IN
  IF \E i \in ix : i >= Len(packet) THEN LibResult(Err("panic"), ix)
  ELSE IF Len(packet) < 26 + commlength + miblength + datalength
  THEN LibResult(Err("Packet length is too short."), ix)
  ELSE CASE datatype = 2 ->
              LibResult(Ok(Digits(IntegerLoop(packet, datastart, datalength,
                                              Range(datalength, 0),
                                              <<0, 0, 0, 0>>))), ix)
         [] datatype = 4 ->
              LibResult(IF from_utf8(data) THEN Ok(data)
                        ELSE Err("Failed to parse UTF8"),
                        ix \cup (datastart..(datastart + datalength - 1)))
         [] datatype = 5 -> LibResult(Err("Response is of type null"), ix)
         [] datatype \in {6, 48, 160, 162, 163} ->
              LibResult(Err("Response is of unhandled type"), ix)
         [] OTHER -> LibResult(Err("Invalid response type"), ix)

(***************************************************************************)
(* The inputs.  A text is valid by construction (a concatenation of        *)
(* encoded characters of one, two and three bytes) or one of the listed    *)
(* ill-formed sequences, so that no input is classified by from_utf8.      *)
(***************************************************************************)
Chars == {<<97>>, <<195, 169>>, <<226, 130, 172>>}

RECURSIVE TextsOf(_)
TextsOf(n) ==
  IF n = 0 THEN {<<>>}
  ELSE LET T == TextsOf(n - 1) IN T \cup {t \o c : t \in T, c \in Chars}

Monkey == <<109, 111, 110, 107, 101, 121, 53, 48, 48, 48>>
Public == <<112, 117, 98, 108, 105, 99>>

ValidTexts == TextsOf(MaxTextLen) \cup {Monkey, Public, Repeat(97, 127)}

InvalidTexts ==
  {<<255>>, <<195>>, <<97, 169>>, <<192, 128>>, <<237, 160, 128>>,
   <<97, 226, 130>>}

\* a TLV as a peer writes it
TLV(tag, content) == <<tag, Len(content) % 256>> \o content

\* the fields of a response, each with what it is meant to be
Versions ==
  {[ok |-> TRUE, bytes |-> TLV(2, <<0>>)],
   [ok |-> FALSE, bytes |-> TLV(2, <<1>>)],
   [ok |-> FALSE, bytes |-> TLV(4, <<0>>)]}

Communities ==
  {[ok |-> TRUE, text |-> Public, bytes |-> TLV(4, Public)],
   [ok |-> TRUE, text |-> <<>>, bytes |-> TLV(4, <<>>)],
   [ok |-> FALSE, text |-> <<255>>, bytes |-> TLV(4, <<255>>)],
   [ok |-> FALSE, text |-> <<>>, bytes |-> TLV(2, <<0>>)]}

RequestIds ==
  {[ok |-> TRUE, bytes |-> TLV(2, <<0, 0, 0, 1>>)],
   [ok |-> TRUE, bytes |-> TLV(2, <<200>>)],
   [ok |-> FALSE, bytes |-> TLV(2, <<>>)]}

\* an error status: kind "zero", "nonzero" (value is its i64) or "bad"
Statuses ==
  {[kind |-> "zero", value |-> I64Zero, bytes |-> TLV(2, <<0>>)],
   [kind |-> "zero", value |-> I64Zero, bytes |-> TLV(2, <<0, 0>>)],
   [kind |-> "nonzero", value |-> <<0, 0, 0, 0, 0, 0, 0, 2>>,
    bytes |-> TLV(2, <<2>>)],
   [kind |-> "nonzero",
    value |-> <<255, 255, 255, 255, 255, 255, 255, 200>>,
    bytes |-> TLV(2, <<200>>)],
   [kind |-> "nonzero", value |-> <<0, 0, 0, 0, 0, 0, 1, 0>>,
    bytes |-> TLV(2, <<1, 0>>)],
   [kind |-> "bad", value |-> I64Zero, bytes |-> TLV(4, <<2>>)],
   [kind |-> "bad", value |-> I64Zero, bytes |-> TLV(2, Repeat(1, 9))]}

\* a bound value: kind "text" (a valid OctetString), "badtext" or "other"
Values ==
  {[kind |-> "text", text |-> t, bytes |-> TLV(4, t)] : t \in ValidTexts}
  \cup
  {[kind |-> "badtext", text |-> t, bytes |-> TLV(4, t)] : t \in InvalidTexts}
  \cup
  {[kind |-> "other", text |-> <<>>, bytes |-> b] :
     b \in {TLV(2, <<5>>), TLV(2, <<200>>), TLV(2, <<1, 0>>), TLV(2, <<>>),
            TLV(2, Repeat(1, 9)), <<5, 0>>, TLV(6, <<43, 6>>), <<48, 0>>,
            <<7, 0>>, <<4, 5, 97>>, <<4>>, <<>>}}

OidTLV == TLV(6, <<43, 6, 1, 2, 1, 1, 5, 0>>)

\* what follows the error status: kind "binding" (well formed up to the
\* value, with the error index zero or not) or "junk"
BindingTail(ei, exact, v) ==
  [kind |-> "binding", indexZero |-> (ei = <<0>>), value |-> v,
   bytes |-> TLV(2, ei)
             \o <<48, IF exact THEN Len(OidTLV) + Len(v.bytes) + 2 ELSE 0>>
             \o <<48, IF exact THEN Len(OidTLV) + Len(v.bytes) ELSE 0>>
             \o OidTLV \o v.bytes]

MonkeyValue == [kind |-> "text", text |-> Monkey, bytes |-> TLV(4, Monkey)]

JunkTail(b) ==
  [kind |-> "junk", indexZero |-> FALSE, value |-> MonkeyValue, bytes |-> b]

BindingTails ==
  {BindingTail(ei, exact, v) :
     ei \in {<<0>>, <<3>>}, exact \in BOOLEAN, v \in Values}

FewTails ==
  {BindingTail(<<0>>, TRUE, MonkeyValue), BindingTail(<<3>>, TRUE, MonkeyValue),
   JunkTail(<<>>), JunkTail(<<255, 255, 255>>),
   JunkTail(TLV(2, <<0>>) \o <<49, 0, 48, 0>> \o OidTLV \o <<5, 0>>),
   JunkTail(TLV(2, <<0>>) \o <<48, 0, 48, 0>> \o <<5, 0>> \o <<5, 0>>)}

Good ==
  [first |-> 48, length |-> "exact", whole |-> TRUE, keep |-> 0,
   version |-> [ok |-> TRUE, bytes |-> TLV(2, <<0>>)],
   community |-> [ok |-> TRUE, text |-> Public, bytes |-> TLV(4, Public)],
   pduTag |-> 162,
   requestId |-> [ok |-> TRUE, bytes |-> TLV(2, <<0, 0, 0, 1>>)],
   errorStatus |-> [kind |-> "zero", value |-> I64Zero,
                    bytes |-> TLV(2, <<0>>)],
   tail |-> BindingTail(<<0>>, TRUE, MonkeyValue)]

\* responses with a sound header and every bound value
ValueGens ==
  {[Good EXCEPT !.community = c, !.errorStatus = s, !.tail = t] :
     c \in {c \in Communities : c.ok},
     s \in {s \in Statuses : s.kind = "zero"},
     t \in BindingTails}

\* responses with any combination of sound and unsound header fields
HeaderGens ==
  {[Good EXCEPT !.first = f, !.length = l, !.version = v, !.community = c,
                !.pduTag = p, !.requestId = r, !.errorStatus = s,
                !.tail = t] :
     f \in {48, 49}, l \in {"exact", "plus1"}, v \in Versions,
     c \in {c \in Communities : c.bytes # TLV(4, <<>>)}, p \in {162, 160},
     r \in {r \in RequestIds : Len(r.bytes) # 3},
     s \in Statuses, t \in FewTails}

\* the first bytes of a buffer
ShortGens ==
  {[Good EXCEPT !.first = f, !.length = l, !.whole = FALSE, !.keep = k] :
     f \in {48, 49}, l \in {"exact", "plus1", "zero"}, k \in 0..MaxTrunc}

ResponseGens == ValueGens \cup HeaderGens \cup ShortGens

MkResponse(g) ==
  LET pdu == g.requestId.bytes \o g.errorStatus.bytes \o g.tail.bytes
      body == g.version.bytes \o g.community.bytes
              \o <<g.pduTag, Len(pdu) % 256>> \o pdu
      declared == CASE g.length = "exact" -> Len(body) % 256
                    [] g.length = "plus1" -> (Len(body) + 1) % 256
                    [] OTHER -> 0
      packet == <<g.first, declared>> \o body
  IN IF g.whole THEN packet ELSE SubSeq(packet, 1, g.keep)

\* a sound response that ends after the first g.keep bytes of its body, with
\* the length byte of the envelope written for what is left
Body(g) ==
  LET pdu == g.requestId.bytes \o g.errorStatus.bytes \o g.tail.bytes
  IN g.version.bytes \o g.community.bytes \o <<g.pduTag, Len(pdu) % 256>>
     \o pdu

CutGens ==
  {[Good EXCEPT !.length = "cut", !.whole = FALSE, !.keep = k] :
     k \in 0..(Len(Body(Good)) - 1)}

MkCut(g) == <<g.first, g.keep>> \o SubSeq(Body(g), 1, g.keep)

\* the buffers given to extract_value
BufBytes == {0, 1, 2, 3, 4, 5, 6, 48, 200}

RECURSIVE BuffersOf(_)
BuffersOf(n) ==
  IF n = 0 THEN {<<>>}
  ELSE LET B == BuffersOf(n - 1)
       IN B \cup {Append(b, x) : b \in {b \in B : Len(b) = n - 1},
                                 x \in BufBytes}

TlvBuffers == BuffersOf(MaxTrunc) \cup {TLV(4, Monkey), TLV(2, Repeat(1, 8))}

\* Integer TLVs of every declared length from 0 to 9, alone in the buffer
\* or followed by one more byte
IntegerBuffers ==
  {TLV(2, c) \o t :
     c \in {<<>>, <<5>>, <<200>>, <<1, 0>>, <<0, 1>>, <<255, 254>>,
            <<1, 2, 3>>, <<1, 2, 3, 4>>, Repeat(1, 7), Repeat(1, 8),
            <<128, 0, 0, 0, 0, 0, 0, 1>>, Repeat(1, 9)},
     t \in {<<>>, <<7>>}}

\* the values given to the encoders
U8s == Byte
I16s == {-32768, -32767, -256, -129, -128, -1, 0, 1, 127, 128, 255, 256, 32767}
I32s == I16s \cup {-2147483647 - 1, -65536, 65535, 65536, 2147483647}
U32s == {<<0, 0>>, <<0, 1>>, <<0, 255>>, <<0, 65535>>, <<1, 0>>,
         <<32767, 65535>>, <<32768, 0>>, <<65535, 65535>>}
Slices ==
  ValidTexts \cup InvalidTexts
  \cup {Repeat(97, n) : n \in {126, 128, 255, 256, 257, 300}}

\* the requests given to createpacket
MibSamples == {0, 6, 127, 128, 200, 16383, 16384, 65535}

RECURSIVE MibsOf(_)
MibsOf(n) ==
  IF n = 0 THEN {<<>>}
  ELSE LET M == MibsOf(n - 1)
       IN M \cup {Append(m, x) : m \in {m \in M : Len(m) = n - 1},
                                 x \in MibSamples}

MibVals ==
  {<<>>, <<1>>, <<1, 3>>, <<1, 3, 6, 1, 2, 1, 1, 5, 0>>}
  \cup {a \o m : a \in {<<1, 3>>, <<2, 5>>}, m \in MibsOf(MaxMibLen)}

Requests ==
  [community : {<<>>, Public, Repeat(97, 99), Repeat(97, 100),
                Repeat(97, 228), Repeat(97, 300)},
   request_id : {<<0, 1>>, <<65535, 65535>>},
   mibvals : MibVals]

\* the requests sent, and the datagrams the peer answers them with
SendRequests ==
  [community : {Public}, request_id : {<<0, 1>>},
   mibvals : {<<1, 3>>, <<1, 3, 6, 1, 2, 1, 1, 5, 0>>}]

SendReplies ==
  ShortGens \cup
  {[Good EXCEPT !.errorStatus = s, !.tail = t] :
     s \in Statuses, t \in FewTails}

\* the datagrams given to the parsers that read at fixed offsets: responses
\* whose request id, error status and error index take one byte each, and
\* the first bytes of one, of every length
FixedReplies ==
  {[Good EXCEPT !.community = c,
                !.requestId = [ok |-> TRUE, bytes |-> TLV(2, <<1>>)],
                !.tail = BindingTail(<<0>>, TRUE, v)] :
     c \in {c \in Communities : c.ok}, v \in Values}

FixedGens ==
  UNION {{[g EXCEPT !.whole = FALSE, !.keep = k] :
            k \in 0..Len(MkResponse(g))} : g \in FixedReplies}

(***************************************************************************)
(* The state: a call that is ready or done, the operation called, its      *)
(* argument, for a response the fields it was written from (for a request  *)
(* the build's overflow checks), what the call returned, and for send the  *)
(* log of the steps it has taken, each with whether it succeeded.          *)
(***************************************************************************)
Ready(name, arg, g) ==
  /\ pc = "ready"
  /\ op = name
  /\ input = arg
  /\ gen = g
  /\ output = <<>>
  /\ log = <<>>

Init ==
  \/ \E g \in ResponseGens : Ready("from_packet", MkResponse(g), g)
  \/ \E g \in CutGens : Ready("from_packet", MkCut(g), g)
  \/ \E data \in TlvBuffers \cup IntegerBuffers :
       Ready("extract_value", data, <<>>)
  \/ \E v \in U8s : Ready("encode_snmp_u8", v, <<>>)
  \/ \E v \in I16s : Ready("encode_snmp_i16", v, <<>>)
  \/ \E v \in I32s : Ready("encode_snmp_i32", v, <<>>)
  \/ \E w \in U32s : Ready("encode_snmp_u32", w, <<>>)
  \/ \E s \in Slices : Ready("encode_snmp_bytes", s, <<>>)
  \/ \E req \in Requests, overflow_checks \in BOOLEAN :
       Ready("createpacket", req, overflow_checks)
  \/ \E g \in FixedGens : Ready("lib_from_packet", MkResponse(g), g)
  \/ \E g \in FixedGens : Ready("main_parse", MkResponse(g), g)
  \/ \E req \in SendRequests, overflow_checks \in BOOLEAN,
        g \in SendReplies :
       Ready("send", req,
             [overflow_checks |-> overflow_checks, reply |-> MkResponse(g)])

FromPacket ==
  /\ pc = "ready"
  /\ op = "from_packet"
  /\ pc' = "done"
  /\ output' = from_packet(input)
  /\ UNCHANGED <<op, input, gen, log>>

ExtractValue ==
  /\ pc = "ready"
  /\ op = "extract_value"
  /\ pc' = "done"
  /\ output' = extract_value(input)
  /\ UNCHANGED <<op, input, gen, log>>

EncodeU8 ==
  /\ pc = "ready"
  /\ op = "encode_snmp_u8"
  /\ pc' = "done"
  /\ output' = encode_snmp_u8(input)
  /\ UNCHANGED <<op, input, gen, log>>

EncodeI16 ==
  /\ pc = "ready"
  /\ op = "encode_snmp_i16"
  /\ pc' = "done"
  /\ output' = encode_snmp_i16(input)
  /\ UNCHANGED <<op, input, gen, log>>

EncodeI32 ==
  /\ pc = "ready"
  /\ op = "encode_snmp_i32"
  /\ pc' = "done"
  /\ output' = encode_snmp_i32(input)
  /\ UNCHANGED <<op, input, gen, log>>

EncodeU32 ==
  /\ pc = "ready"
  /\ op = "encode_snmp_u32"
  /\ pc' = "done"
  /\ output' = encode_snmp_u32(input)
  /\ UNCHANGED <<op, input, gen, log>>

EncodeBytes ==
  /\ pc = "ready"
  /\ op = "encode_snmp_bytes"
  /\ pc' = "done"
  /\ output' = encode_snmp_bytes(input)
  /\ UNCHANGED <<op, input, gen, log>>

CreatePacket ==
  /\ pc = "ready"
  /\ op = "createpacket"
  /\ pc' = "done"
  /\ output' = createpacket(input, gen)
  /\ UNCHANGED <<op, input, gen, log>>

\* message.to_string() on the Message that from_packet returned
MessageToString ==
  /\ pc = "done"
  /\ op = "from_packet"
  /\ output.ok
  /\ pc' = "shown"
  /\ output' = to_string(output.val)
  /\ UNCHANGED <<op, input, gen, log>>

(***************************************************************************)
(* snmpv1.rs: Request::send, one action for each of its steps.  A step of  *)
(* the transport (bind, set_read_timeout, send_to, recv_from) succeeds or  *)
(* fails with an io::Error, which `?` returns as SnmpError::Io.  gen.reply *)
(* is the datagram recv_from delivers when it succeeds.                    *)
(***************************************************************************)
\* the step is logged; a failed step ends the call with the error
SendStep(at, name, ok, to, result) ==
  /\ op = "send"
  /\ pc = at
  /\ log' = Append(log, [step |-> name, ok |-> ok])
  /\ pc' = IF ok THEN to ELSE "done"
  /\ output' = result
  /\ UNCHANGED <<op, input, gen>>

SendBind ==
  \E ok \in BOOLEAN :
    SendStep("ready", "bind", ok, "bound", IF ok THEN output ELSE Err("Io"))

SendSetReadTimeout ==
  \E ok \in BOOLEAN :
    SendStep("bound", "set_read_timeout", ok, "timeout_set",
             IF ok THEN output ELSE Err("Io"))

SendCreatePacket ==
  LET r == createpacket(input, gen.overflow_checks)
  IN SendStep("timeout_set", "createpacket", r.ok, "built", r)

SendSendTo ==
  \E ok \in BOOLEAN :
    SendStep("built", "send_to", ok, "sent", IF ok THEN output ELSE Err("Io"))

\* a faulty variant: a receive that fails is attempted again
SendRecvFrom_retry ==
  \E ok \in BOOLEAN :
    /\ Len(log) < 7
    /\ SendStep("sent", "recv_from", TRUE, IF ok THEN "received" ELSE "sent",
                IF ok THEN Ok(gen.reply) ELSE output)

SendRecvFrom ==
  \E ok \in BOOLEAN :
    SendStep("sent", "recv_from", ok, "received",
             IF ok THEN Ok(gen.reply) ELSE Err("Io"))

SendFromPacket ==
  LET r == from_packet(output.val)
  IN SendStep("received", "from_packet", r.ok, "done", r)

LibFromPacket ==
  /\ pc = "ready"
  /\ op = "lib_from_packet"
  /\ pc' = "done"
  /\ output' = lib_from_packet(input)
  /\ UNCHANGED <<op, input, gen, log>>

\* an accessor called on the Message that lib.rs from_packet returned
LibAsInt ==
  /\ pc = "done"
  /\ op = "lib_from_packet"
  /\ output.res.ok
  /\ pc' = "shown"
  /\ output' = as_int(output.res.val)
  /\ UNCHANGED <<op, input, gen, log>>

MainParse ==
  /\ pc = "ready"
  /\ op = "main_parse"
  /\ pc' = "done"
  /\ output' = main_parse(input)
  /\ UNCHANGED <<op, input, gen, log>>

Next ==
  \/ FromPacket
  \/ ExtractValue
  \/ EncodeU8
  \/ EncodeI16
  \/ EncodeI32
  \/ EncodeU32
  \/ EncodeBytes
  \/ CreatePacket
  \/ MessageToString
  \/ SendBind
  \/ SendSetReadTimeout
  \/ SendCreatePacket
  \/ SendSendTo
  \/ SendRecvFrom
  \/ SendFromPacket
  \/ LibFromPacket
  \/ LibAsInt
  \/ MainParse

Spec == Init /\ [][Next]_vars

(***************************************************************************)
(* The OID unpacker of the design (section 4.2): 7-bit groups are          *)
(* accumulated until a byte without the continuation bit ends a            *)
(* sub-identifier; a sequence that ends inside one is a ParsingError.      *)
(***************************************************************************)
RECURSIVE UnpackFrom(_, _, _, _)
UnpackFrom(bytes, i, acc, done) ==
  IF i > Len(bytes) THEN Ok(done)
  ELSE IF bytes[i] >= 128
    THEN IF i = Len(bytes) THEN Err("ParsingError")
         ELSE UnpackFrom(bytes, i + 1, acc * 128 + (bytes[i] - 128), done)
  ELSE UnpackFrom(bytes, i + 1, 0, Append(done, acc * 128 + bytes[i]))

Unpack(bytes) == UnpackFrom(bytes, 1, 0, <<>>)

(***************************************************************************)
(* Properties of Message::from_packet.                                     *)
(***************************************************************************)
Parsed == pc = "done" /\ op = "from_packet"

\* the fields before the error status are sound
HeaderOk(g) ==
  /\ g.whole /\ g.first = 48 /\ g.length = "exact"
  /\ g.version.ok /\ g.community.ok /\ g.pduTag = 162 /\ g.requestId.ok

\* a well-formed GetResponse that binds an OctetString of valid UTF-8
TextResponse(g) ==
  /\ HeaderOk(g)
  /\ g.errorStatus.kind = "zero"
  /\ g.tail.kind = "binding" /\ g.tail.indexZero
  /\ g.tail.value.kind = "text" /\ Len(g.tail.value.text) <= 127

C3_NotSequenceIsParsingError ==
  (Parsed /\ Len(input) >= 1 /\ input[1] # 48)
    => ~output.ok /\ output.err = "ParsingError"

\* C3 (amended): a buffer whose first byte is not 0x30 always fails: with
\* PacketTooShort when it has fewer than 2 bytes or its second byte is not
\* its length minus 2, and with ParsingError otherwise.
C3_NotSequenceFails ==
  (Parsed /\ Len(input) >= 1 /\ input[1] # 48)
    => /\ ~output.ok
       /\ output.err = IF Len(input) < 2 \/ input[2] # Len(input) - 2
                       THEN "PacketTooShort" ELSE "ParsingError"

C3_Witness ==
  /\ Parsed /\ Len(input) > 2 /\ input[1] = 49 /\ input[2] = Len(input) - 2
  /\ ~output.ok /\ output.err = "ParsingError"

(***************************************************************************)
(* Properties of the TLV codec.                                            *)
(***************************************************************************)
\* C4: extract_value on a buffer of fewer than 2 bytes, or with fewer bytes
\* after the 2-byte header than the length byte declares, fails with
\* PacketTooShort and indexes nothing at or beyond the buffer's length.
C4_TruncatedIsPacketTooShort ==
  (pc = "done" /\ op = "extract_value"
     /\ (Len(input) < 2 \/ Len(input) - 2 < input[2]))
    => /\ output.res = Err("PacketTooShort")
       /\ \A i \in output.indexed : i < Len(input)

C4_Witness ==
  /\ pc = "done" /\ op = "extract_value"
  /\ Len(input) = 3 /\ input[2] = 2
  /\ output.res = Err("PacketTooShort")
  /\ output.indexed = {0, 1}

Encoded ==
  /\ pc = "done"
  /\ op \in {"encode_snmp_u8", "encode_snmp_i16", "encode_snmp_i32",
             "encode_snmp_u32", "encode_snmp_bytes"}

\* C5: decoding what encode_snmp(v) wrote gives back v: an Integer of the
\* same value and sign for a u8, i16, i32 or u32, the same text for a byte
\* string of valid UTF-8 of at most 127 bytes; by extract_value on the
\* bytes and by decode_snmp on their content alike.
C5_EncodeDecodeRoundTrip ==
  (Encoded /\ (op = "encode_snmp_bytes"
                 => input \in ValidTexts /\ Len(input) <= 127))
    => LET content == SubSeq(output, 3, Len(output))
       IN CASE op = "encode_snmp_bytes" ->
                 /\ extract_value(output).res = Ok(SnmpString(input))
                 /\ decode_snmp_String(content) = Ok(input)
            [] op = "encode_snmp_u32" ->
                 /\ extract_value(output).res = Ok(SnmpInteger(I64OfU32(input)))
                 /\ decode_snmp_i64(content) = Ok(I64OfU32(input))
            [] OTHER ->
                 /\ extract_value(output).res = Ok(SnmpInteger(I64(input)))
                 /\ decode_snmp_i64(content) = Ok(I64(input))

\* C6: the second byte of encode_snmp(v) is the length of the output minus
\* 2, for every u8, i16, i32, u32 and every byte slice.
C6_LengthByte == Encoded => output[2] = Len(output) - 2

(***************************************************************************)
(* Properties of Request::createpacket.  With a community of c bytes the   *)
(* PDU header is at c+8, the binding sequences at c+22 and c+24, the OID   *)
(* header at c+26 and the OID content from c+28 to the Null TLV.           *)
(***************************************************************************)
Built == pc = "done" /\ op = "createpacket"

OidContent(buf, c) == SubSeq(buf, c + 28, Len(buf) - 2)

\* C7: for every community, request-id and sub-identifier list (also one
\* of fewer than three) createpacket returns a buffer whose outer length
\* byte is its length minus 2 and whose PDU, binding-sequence and OID
\* length bytes each equal the number of bytes they wrap.
C7_LengthBytes ==
  Built =>
    /\ output.ok
    /\ LET buf == output.val
           c == Len(input.community)
       IN /\ buf[2] = Len(buf) - 2
          /\ buf[c + 9] = Len(buf) - (c + 9)
          /\ buf[c + 23] = Len(buf) - (c + 23)
          /\ buf[c + 25] = Len(buf) - (c + 25)
          /\ buf[c + 27] = Len(OidContent(buf, c))

\* the largest length a well-formed packet for the request would declare
OuterLength(req) ==
  28 + Len(req.community) + Len(createpacket_mib(req.mibvals))

\* C8: createpacket and encode_snmp fail with EncodingTooLarge, and return
\* no buffer, whenever a computed length would exceed 127.
C8_EncodingTooLarge ==
  /\ (Built /\ OuterLength(input) > 127)
       => ~output.ok /\ output.err = "EncodingTooLarge"
  /\ ~(pc = "done" /\ op = "encode_snmp_bytes" /\ Len(input) > 127)

\* C9: the first content byte of the ObjectIdentifier is 40*X + Y for the
\* first two sub-identifiers X and Y, and the remaining sub-identifiers
\* follow it in order.
C9_FirstArcs ==
  (Built /\ output.ok /\ Len(input.mibvals) >= 2)
    => LET oid == OidContent(output.val, Len(input.community))
           rest == SubSeq(input.mibvals, 3, Len(input.mibvals))
       IN /\ oid[1] = 40 * input.mibvals[1] + input.mibvals[2]
          /\ (\A i \in 1..Len(rest) : rest[i] <= 127)
               => SubSeq(oid, 2, Len(oid)) = rest

\* C10: unpacking the packed sub-identifiers (those after the first two,
\* each any u16) gives back the sequence: one byte for v <= 127, and for
\* v > 127 the groups most significant first, 0x80 on all but the last.
C10_PackUnpackRoundTrip ==
  (Built /\ output.ok)
    => LET oid == OidContent(output.val, Len(input.community))
       IN Unpack(SubSeq(oid, 2, Len(oid)))
            = Ok(SubSeq(input.mibvals, 3, Len(input.mibvals)))

(***************************************************************************)
(* Properties of Request::send.                                            *)
(***************************************************************************)
SendOrder ==
  <<"bind", "set_read_timeout", "createpacket", "send_to", "recv_from",
    "from_packet">>

TransportSteps == {"bind", "set_read_timeout", "send_to", "recv_from"}

Count(name) == Cardinality({i \in 1..Len(log) : log[i].step = name})

\* C11: send takes its steps in the order bind, set timeout, build,
\* transmit, receive, parse; it transmits at most one datagram and attempts
\* at most one receive; a transport step that fails is the last step and the
\* call returns the Io error; a parse that fails returns its own error kind.
C11_SendOrder ==
  op = "send" =>
    /\ Len(log) <= Len(SendOrder)
    /\ \A i \in 1..Len(log) : log[i].step = SendOrder[i]
    /\ Count("send_to") <= 1 /\ Count("recv_from") <= 1
    /\ \A i \in 1..Len(log) :
         ~log[i].ok =>
           /\ i = Len(log)
           /\ pc = "done"
           /\ log[i].step \in TransportSteps => output = Err("Io")
           /\ log[i].step = "from_packet" =>
                /\ output = from_packet(gen.reply)
                /\ output.err \in {"PacketTooShort", "ParsingError",
                                   "InvalidType", "ResponseError"}

C11_Witness ==
  /\ op = "send" /\ pc = "done"
  /\ Len(log) = 5 /\ ~log[5].ok /\ log[5].step = "recv_from"
  /\ output = Err("Io")

(***************************************************************************)
(* C12.                                                                    *)
(***************************************************************************)
\* the Message that lib.rs from_packet made of the datagram
LibParsed == lib_from_packet(input).res.val

LibData(m) == SubSeq(m.packet, m.datastart + 1, m.datastart + m.datalength)

\* the 32-bit number that 1 to 4 content bytes of an Integer encode
I32OfContent(data) == SubSeq(SignExtend(data), 5, 8)

\* C12: as_int of a lib.rs Message of type SnmpInteger returns the number
\* that the datalength bytes at datastart encode (so a nonzero encoded
\* integer gives that nonzero number), and InvalidType for a Message of
\* any other type.
C12_AsIntIsTheNumber ==
  (pc = "shown" /\ op = "lib_from_packet") =>
    IF LibParsed.datatype = "SnmpInteger"
    THEN /\ output.ok
         /\ LibParsed.datalength \in 1..4 =>
              output.val = I32OfContent(LibData(LibParsed))
    ELSE ~output.ok /\ output.err = "InvalidType"

(***************************************************************************)
(* C13.  The fields of a response are numbered in the order of the design: *)
(* 1 envelope, 2 version, 3 community, 4 PDU tag, 5 PDU length,            *)
(* 6 request id, 7 error status, 8 error index, 9 bindings wrapper,        *)
(* 10 binding OID, 11 binding value.                                       *)
(***************************************************************************)
Violation(f, e, c) == [field |-> f, err |-> e, code |-> c]

\* the field at which from_packet returned early; 0 when it returned Ok
FailedField(packet) ==
  LET s1 == from_packet_envelope(packet)
      s2 == from_packet_version(packet, s1)
      s3 == from_packet_community(packet, s2)
      s4 == from_packet_pdu(packet, s3)
      s5 == from_packet_request_id(packet, s4)
      s6 == from_packet_error_status(packet, s5)
      s7 == from_packet_error_index(packet, s6)
      s8 == from_packet_bindings(packet, s7)
      s9 == from_packet_oid(packet, s8)
      s10 == from_packet_data(packet, s9)
  IN CASE s1.failed -> 1
       [] s2.failed -> 2
       [] s3.failed -> 3
       [] s4.failed -> IF ExpectByte(packet, s3, 162).failed THEN 4 ELSE 5
       [] s5.failed -> 6
       [] s6.failed -> 7
       [] s7.failed -> 8
       [] s8.failed -> 9
       [] s9.failed -> 10
       [] s10.failed -> 11
       [] OTHER -> 0

\* the earliest field that what follows the error status violates, as the
\* response was written; field 12 stands for a bound value that is neither
\* text nor ill-formed text, of which nothing is said here
TailViolation(t) ==
  CASE t.kind = "binding" /\ ~t.indexZero ->
         Violation(8, "ResponseError", <<0, 0, 0, 0, 0, 0, 0, 3>>)
    [] t.kind = "binding" /\ t.indexZero /\ t.value.kind = "text" ->
         Violation(0, "", <<>>)
    [] t.kind = "binding" /\ t.indexZero /\ t.value.kind = "badtext" ->
         Violation(11, "ParsingError", <<>>)
    [] t.kind = "binding" /\ t.indexZero /\ t.value.kind = "other" ->
         Violation(12, "", <<>>)
    [] t.kind = "junk" /\ Len(t.bytes) <= 3 ->
         Violation(8, "PacketTooShort", <<>>)
    [] t.kind = "junk" /\ Len(t.bytes) > 3 /\ t.bytes[4] # 48 ->
         Violation(9, "ParsingError", <<>>)
    [] OTHER -> Violation(10, "ParsingError", <<>>)

\* the earliest field that a whole response violates, with its error
WholeViolation(g) ==
  CASE g.length # "exact" -> Violation(1, "PacketTooShort", <<>>)
    [] g.length = "exact" /\ g.first # 48 -> Violation(1, "ParsingError", <<>>)
    [] OTHER ->
       CASE ~g.version.ok -> Violation(2, "ParsingError", <<>>)
         [] g.version.ok /\ ~g.community.ok ->
              Violation(3, "ParsingError", <<>>)
         [] OTHER ->
            CASE g.pduTag # 162 -> Violation(4, "ParsingError", <<>>)
              [] g.pduTag = 162 /\ ~g.requestId.ok ->
                   Violation(6, "ParsingError", <<>>)
              [] OTHER ->
                 CASE g.errorStatus.kind = "nonzero" ->
                        Violation(7, "ResponseError", g.errorStatus.value)
                   [] g.errorStatus.kind = "bad" ->
                        Violation(7, "ParsingError", <<>>)
                   [] OTHER -> TailViolation(g.tail)

\* the field in which a sound response cut after g.keep bytes of its body
\* ends: a TLV that is not whole is PacketTooShort, a missing byte is a
\* ParsingError
CutViolation(g) ==
  LET e2 == Len(g.version.bytes)
      e3 == e2 + Len(g.community.bytes)
      e6 == e3 + 2 + Len(g.requestId.bytes)
      e7 == e6 + Len(g.errorStatus.bytes)
      e8 == e7 + 3
      e9 == e8 + 4
      e10 == e9 + Len(OidTLV)
      k == g.keep
  IN CASE k < e2 -> Violation(2, "PacketTooShort", <<>>)
       [] k >= e2 /\ k < e3 -> Violation(3, "PacketTooShort", <<>>)
       [] k = e3 -> Violation(4, "ParsingError", <<>>)
       [] k = e3 + 1 -> Violation(5, "ParsingError", <<>>)
       [] k >= e3 + 2 /\ k < e6 -> Violation(6, "PacketTooShort", <<>>)
       [] k >= e6 /\ k < e7 -> Violation(7, "PacketTooShort", <<>>)
       [] k >= e7 /\ k < e8 -> Violation(8, "PacketTooShort", <<>>)
       [] k >= e8 /\ k < e9 -> Violation(9, "ParsingError", <<>>)
       [] k >= e9 /\ k < e10 -> Violation(10, "PacketTooShort", <<>>)
       [] OTHER -> Violation(11, "PacketTooShort", <<>>)

\* the first bytes of a response whose length byte was written for all of it
ShortViolation(g) ==
  CASE g.keep < 2 \/ g.length # "zero" \/ g.keep > 2 ->
         Violation(1, "PacketTooShort", <<>>)
    [] g.keep = 2 /\ g.length = "zero" /\ g.first # 48 ->
         Violation(1, "ParsingError", <<>>)
    [] OTHER -> Violation(2, "PacketTooShort", <<>>)

EarliestViolation(g) ==
  CASE g.whole -> WholeViolation(g)
    [] ~g.whole /\ g.length = "cut" -> CutViolation(g)
    [] OTHER -> ShortViolation(g)

After(b, p) == p + 2 + b[p + 1]

\* at position p of b stands an Integer TLV whose content is the number 0
IntZeroAt(b, p) ==
  /\ Len(b) >= p + 1
  /\ b[p] = 2
  /\ b[p + 1] \in 1..8
  /\ Len(b) >= p + 1 + b[p + 1]
  /\ \A i \in 1..b[p + 1] : b[p + 1 + i] = 0

HasInvariantFields(b) ==
  LET community == After(b, 3)
      pduTag == After(b, community)
      requestId == pduTag + 2
      errorStatus == After(b, requestId)
      errorIndex == After(b, errorStatus)
  IN /\ Len(b) >= 2
     /\ b[1] = 48
     /\ b[2] = Len(b) - 2
     /\ IntZeroAt(b, 3)
     /\ b[pduTag] = 162
     /\ IntZeroAt(b, errorStatus)
     /\ IntZeroAt(b, errorIndex)

\* C14: whenever from_packet returns a Message, the first byte of the
\* packet is 0x30, its second byte is its length minus 2, its version is
\* the Integer 0, its PDU tag is 0xA2, and its error status and error index
\* are the Integer 0; a packet that fails any of these gives no Message.
C14_MessageImpliesFields ==
  (Parsed /\ output.ok) => HasInvariantFields(input)

C14_Witness ==
  /\ Parsed /\ output.ok
  /\ gen.tail.value.bytes = TLV(2, <<5>>)
  /\ output.val.data = SnmpInteger(<<0, 0, 0, 0, 0, 0, 0, 5>>)
  /\ HasInvariantFields(input)

(***************************************************************************)
(* C15, C16: the TLV decoder on single tags.                               *)
(***************************************************************************)
\* extract_value was given a TLV with the bytes its length byte declares
ExtractedWhole ==
  /\ pc = "done" /\ op = "extract_value"
  /\ Len(input) >= 2 /\ Len(input) - 2 >= input[2]

\* C15: decoding a TLV of tag 0x02 reads exactly the `length` content bytes
\* after the 2-byte header, and none after them, as a big-endian
\* two's-complement signed integer, and fails with ParsingError exactly
\* when the declared length is 0 or greater than 8.
C15_IntegerIsBigEndianContent ==
  (ExtractedWhole /\ input[1] = 2) =>
    output.res =
      IF input[2] = 0 \/ input[2] > 8 THEN Err("ParsingError")
      ELSE Ok(SnmpInteger(SignExtend(SubSeq(input, 3, 2 + input[2]))))

\* from_packet was given a response that is sound up to the bound value,
\* and the bound value is a TLV with the bytes its length byte declares
BoundValueWhole ==
  /\ Parsed /\ HeaderOk(gen) /\ gen.errorStatus.kind = "zero"
  /\ gen.tail.kind = "binding" /\ gen.tail.indexZero
  /\ Len(gen.tail.value.bytes) >= 2
  /\ Len(gen.tail.value.bytes) - 2 = gen.tail.value.bytes[2]

C17_IndicesBelowLength ==
  (pc = "done" /\ op \in {"lib_from_packet", "main_parse"}) =>
    /\ \A i \in output.indexed : i < Len(input)
    /\ output.res.err # "panic"

================================================================================
